---- MODULE Spec2Model ----
(***************************************************************************)
(* The in-memory user registry of internal/users (Manager, AddUser,        *)
(* GetUserByName), modelled from the latest snapshot of users.go.          *)
(*                                                                         *)
(* Go strings are TLA+ strings, an error is its message (Nil for the nil   *)
(* error), and the *User returned by GetUserByName is the 1-based index of *)
(* the record inside m.users (NilPtr for the nil pointer).                 *)
(*                                                                         *)
(* Spec is the registry under calls made one at a time; SpecView adds a    *)
(* caller that writes through the *User it was given; SpecScenario runs    *)
(* the calls of TestGetUserByName; SpecConc runs two goroutines in AddUser *)
(* with no locking; SpecHTTP runs the handlers of cmd/server/main.go.      *)
(***************************************************************************)
EXTENDS Naturals, Sequences, FiniteSets, TLC

VARIABLES users, call, ret, before, ucap, held, hist, procs, req, resp,
          logged, running

vars ==
  <<users, call, ret, before, ucap, held, hist, procs, req, resp, logged,
    running>>

(* ------------------------------ bounds -------------------------------- *)

\* AddUser appends only while the registry holds fewer records than this.
MaxUsers == 3

\* The argument values the calls are driven with.  The names come from the
\* test tables ("foo", "bar", "bari") plus the empty string; "foo" is both
\* a first and a last name so that cross pairings such as ("foo","foo")
\* occur.
FirstNames == {"", "foo", "bari"}
LastNames == {"", "bar", "foo"}
Emails == {"", "foobar", "foo@bar.com", "<foo@bar.com>",
           "jhon <foo@bar.com>", "bar@bar.com"}

(* --------------------------- errors, values --------------------------- *)

\* The nil error and the nil *User.
Nil == "<nil>"
NilPtr == 0

ErrNoResultFound == "no result found"

\* The zero mail.Address, the value of *parsedAddress that is never read
\* because ParseAddress returned an error.
NoAddress == [Name |-> "", Address |-> ""]

\* fmt's %q verb on a string without quotes, backslashes or control
\* characters (all the strings of this model): the string in double quotes.
Quote(s) == "\"" \o s \o "\""

\* net/mail.ParseAddress on the inputs of Emails: the parsed mailbox
\* (display name, addr-spec) or an error.  The bare and the angle
\* form of one addr-spec parse to the same Address; a phrase before the
\* angle-addr becomes the display name; a string with no '@' and the empty
\* string do not parse.
ParseAddress(email) ==
  CASE email \in {"foo@bar.com", "bar@bar.com", "f.foo@bar.com",
                  "barz@bar.com", "fooz@bar.com"} ->
         [addr |-> [Name |-> "", Address |-> email], err |-> Nil]
    [] email = "<foo@bar.com>" ->
         [addr |-> [Name |-> "", Address |-> "foo@bar.com"], err |-> Nil]
    [] email = "jhon <foo@bar.com>" ->
         [addr |-> [Name |-> "jhon", Address |-> "foo@bar.com"], err |-> Nil]
    [] email = "" ->
         [addr |-> NoAddress, err |-> "mail: no address"]
    [] OTHER ->
         [addr |-> NoAddress, err |-> "mail: missing '@' or angle-addr"]

(* ------------------------------ lookup -------------------------------- *)

\* Faulty variant: || where the loop body has &&.
MatchWrongOr(user, first, last) ==
  user.FirstName = first \/ user.LastName = last

\* The condition of the loop body of GetUserByName.
Match(user, first, last) ==
  user.FirstName = first /\ user.LastName = last

\* The range loop of GetUserByName from index i on: the first matching
\* record's address, or (nil, ErrNoResultFound) past the end.
RECURSIVE Scan(_, _, _, _)
Scan(m, first, last, i) ==
  IF i > Len(m)
    THEN [ptr |-> NilPtr, err |-> ErrNoResultFound]
    ELSE IF Match(m[i], first, last)
           THEN [ptr |-> i, err |-> Nil]
           ELSE Scan(m, first, last, i + 1)

\* Faulty variant: the loop runs from the last record to the first.
RECURSIVE ScanDown(_, _, _, _)
ScanDown(m, first, last, i) ==
  IF i < 1
    THEN [ptr |-> NilPtr, err |-> ErrNoResultFound]
    ELSE IF Match(m[i], first, last)
           THEN [ptr |-> i, err |-> Nil]
           ELSE ScanDown(m, first, last, i - 1)

GetUserByNameFromEnd(m, first, last) == ScanDown(m, first, last, Len(m))

\* Faulty variant: the loop starts at the second record.
GetUserByNameSkipFirst(m, first, last) == Scan(m, first, last, 2)

\* Faulty variant: a lookup that finds nothing returns an error other
\* than ErrNoResultFound.
GetUserByNameOtherError(m, first, last) ==
  LET r == Scan(m, first, last, 1) IN
    IF r.ptr = NilPtr THEN [ptr |-> NilPtr, err |-> "user not found"] ELSE r

GetUserByName(m, first, last) == Scan(m, first, last, 1)

(* -------------------------------- add --------------------------------- *)

\* Faulty variant: %s where the format has %q.
InvalidFirstNameNoQuote(firstName) == "invalid first name: " \o firstName

\* fmt.Errorf("invalid first name: %q", firstName)
InvalidFirstName(firstName) == "invalid first name: " \o Quote(firstName)

\* Faulty variant: the format of the earlier snapshot of users.go,
\* "invalid last name:%q", with no space after the colon.
InvalidLastNameNoSpace(lastName) == "invalid last name:" \o Quote(lastName)

\* fmt.Errorf("invalid last name: %q", lastName)
InvalidLastName(lastName) == "invalid last name: " \o Quote(lastName)

\* Faulty variant: %q where the format has %s.
InvalidEmailQuoted(email) == "invalid email: " \o Quote(email)

\* fmt.Errorf("invalid email: %s", email)
InvalidEmail(email) == "invalid email: " \o email

\* errors.New("user already exists")
ErrUserExists == "user already exists"

\* Faulty variant: the raw email string stored as the address.
NewUserRawEmail(firstName, lastName, email, parsedAddress) ==
  [FirstName |-> firstName, LastName |-> lastName,
   Email |-> [Name |-> "", Address |-> email]]

\* The composite literal newUser; its Email is *parsedAddress.
NewUser(firstName, lastName, email, parsedAddress) ==
  [FirstName |-> firstName, LastName |-> lastName, Email |-> parsedAddress]

\* Faulty variant: AddUser of the earlier snapshot of users.go, which has
\* no lookup of the pair before the append.
AddUserNoDuplicateCheck(m, firstName, lastName, email) ==
  IF firstName = ""
    THEN [err |-> InvalidFirstName(firstName), users |-> m]
  ELSE IF lastName = ""
    THEN [err |-> InvalidLastName(lastName), users |-> m]
  ELSE LET parsed == ParseAddress(email) IN
    IF parsed.err # Nil
      THEN [err |-> InvalidEmail(email), users |-> m]
      ELSE [err |-> Nil,
            users |-> Append(m, NewUser(firstName, lastName, email, parsed.addr))]

\* Faulty variant: no check of lastName.
AddUserNoLastNameCheck(m, firstName, lastName, email) ==
  IF firstName = ""
    THEN [err |-> InvalidFirstName(firstName), users |-> m]
  ELSE LET existing == GetUserByName(m, firstName, lastName) IN
    IF existing.ptr # NilPtr
      THEN [err |-> ErrUserExists, users |-> m]
    ELSE LET parsed == ParseAddress(email) IN
      IF parsed.err # Nil
        THEN [err |-> InvalidEmail(email), users |-> m]
        ELSE [err |-> Nil,
              users |-> Append(m, NewUser(firstName, lastName, email, parsed.addr))]

\* Faulty variant: the email is parsed before the pair is looked up.
AddUserEmailBeforeDuplicate(m, firstName, lastName, email) ==
  IF firstName = ""
    THEN [err |-> InvalidFirstName(firstName), users |-> m]
  ELSE IF lastName = ""
    THEN [err |-> InvalidLastName(lastName), users |-> m]
  ELSE LET parsed == ParseAddress(email) IN
    IF parsed.err # Nil
      THEN [err |-> InvalidEmail(email), users |-> m]
    ELSE IF GetUserByName(m, firstName, lastName).ptr # NilPtr
      THEN [err |-> ErrUserExists, users |-> m]
      ELSE [err |-> Nil,
            users |-> Append(m, NewUser(firstName, lastName, email, parsed.addr))]

\* Faulty variant: the record is appended before the parse error is tested.
AddUserAppendBeforeParse(m, firstName, lastName, email) ==
  IF firstName = ""
    THEN [err |-> InvalidFirstName(firstName), users |-> m]
  ELSE IF lastName = ""
    THEN [err |-> InvalidLastName(lastName), users |-> m]
  ELSE IF GetUserByName(m, firstName, lastName).ptr # NilPtr
    THEN [err |-> ErrUserExists, users |-> m]
  ELSE LET parsed == ParseAddress(email)
           appended == Append(m, NewUser(firstName, lastName, email, parsed.addr))
       IN IF parsed.err # Nil
            THEN [err |-> InvalidEmail(email), users |-> appended]
            ELSE [err |-> Nil, users |-> appended]

\* Faulty variant: the new record is put at the head of the registry.
AddUserPrepend(m, firstName, lastName, email) ==
  IF firstName = ""
    THEN [err |-> InvalidFirstName(firstName), users |-> m]
  ELSE IF lastName = ""
    THEN [err |-> InvalidLastName(lastName), users |-> m]
  ELSE IF GetUserByName(m, firstName, lastName).ptr # NilPtr
    THEN [err |-> ErrUserExists, users |-> m]
  ELSE LET parsed == ParseAddress(email) IN
    IF parsed.err # Nil
      THEN [err |-> InvalidEmail(email), users |-> m]
      ELSE [err |-> Nil,
            users |-> <<NewUser(firstName, lastName, email, parsed.addr)>> \o m]

\* Faulty variant: an email address already stored is refused.
AddUserUniqueEmail(m, firstName, lastName, email) ==
  IF firstName = ""
    THEN [err |-> InvalidFirstName(firstName), users |-> m]
  ELSE IF lastName = ""
    THEN [err |-> InvalidLastName(lastName), users |-> m]
  ELSE IF GetUserByName(m, firstName, lastName).ptr # NilPtr
    THEN [err |-> ErrUserExists, users |-> m]
  ELSE LET parsed == ParseAddress(email) IN
    IF parsed.err # Nil
      THEN [err |-> InvalidEmail(email), users |-> m]
    ELSE IF \E i \in 1..Len(m) : m[i].Email = parsed.addr
      THEN [err |-> ErrUserExists, users |-> m]
      ELSE [err |-> Nil,
            users |-> Append(m, NewUser(firstName, lastName, email, parsed.addr))]

\* AddUser as a function of the registry and the arguments: the error
\* returned and the value of m.users when it returns.
AddUserResult(m, firstName, lastName, email) ==
  IF firstName = ""
    THEN [err |-> InvalidFirstName(firstName), users |-> m]
  ELSE IF lastName = ""
    THEN [err |-> InvalidLastName(lastName), users |-> m]
  ELSE LET existinguser == GetUserByName(m, firstName, lastName) IN
    IF existinguser.err # Nil /\ existinguser.err # ErrNoResultFound
      THEN [err |-> "error getting user by name: " \o existinguser.err,
            users |-> m]
    ELSE IF existinguser.ptr # NilPtr
      THEN [err |-> ErrUserExists, users |-> m]
    ELSE LET parsed == ParseAddress(email) IN
      IF parsed.err # Nil
        THEN [err |-> InvalidEmail(email), users |-> m]
        ELSE [err |-> Nil,
              users |-> Append(m, NewUser(firstName, lastName, email, parsed.addr))]

(* --------------------------- the state machine ------------------------ *)

NoCall == [op |-> "NewManager", first |-> "", last |-> "", email |-> ""]

\* The caller holds no *User.
NoPointer == [ptr |-> NilPtr, live |-> FALSE]

\* The goroutines that call AddUser concurrently, and one that has not
\* called yet.
Procs == {1, 2}
NotCalled ==
  [pc |-> "idle", first |-> "", last |-> "", email |-> "", err |-> Nil,
   seen |-> <<>>, s |-> <<>>]

\* No request is being served: nothing received, and a response writer
\* nothing was written to (code 0: no status line sent yet; ctype: the
\* Content-Type header; werr: the error its Write returns, Nil when
\* writing works).
NoRequest ==
  [handler |-> "", query |-> <<>>, header |-> <<>>, path |-> "",
   body |-> "", bodyErr |-> FALSE]
NoResponse == [code |-> 0, body |-> "", ctype |-> "", werr |-> Nil]

\* NewManager: &Manager{}, an empty registry (a nil slice, capacity 0); no
\* call made, no pointer handed out, no goroutine inside AddUser, no
\* request received, nothing logged, and the server process running.
Init ==
  /\ users = <<>>
  /\ call = NoCall
  /\ ret = [err |-> Nil, ptr |-> NilPtr]
  /\ before = <<>>
  /\ ucap = 0
  /\ held = NoPointer
  /\ hist = <<>>
  /\ procs = [p \in Procs |-> NotCalled]
  /\ req = NoRequest
  /\ resp = NoResponse
  /\ logged = <<>>
  /\ running = TRUE

\* One call of m.AddUser(firstName, lastName, email).  call, ret and before
\* record the arguments, the returned error and m.users as the call found it.
AddUser ==
  \E firstName \in FirstNames, lastName \in LastNames, email \in Emails :
    LET r == AddUserResult(users, firstName, lastName, email) IN
      /\ Len(r.users) <= MaxUsers
      /\ users' = r.users
      /\ call' = [op |-> "AddUser", first |-> firstName, last |-> lastName,
                  email |-> email]
      /\ ret' = [err |-> r.err, ptr |-> NilPtr]
      /\ before' = users
      /\ UNCHANGED <<ucap, held, hist, procs, req, resp, logged,
                   running>>

\* One call of m.GetUserByName(first, last).
GetUser ==
  \E first \in FirstNames, last \in LastNames :
    LET r == GetUserByName(users, first, last) IN
      /\ call' = [op |-> "GetUserByName", first |-> first, last |-> last,
                  email |-> ""]
      /\ ret' = r
      /\ before' = users
      /\ UNCHANGED <<users, ucap, held, hist, procs, req, resp, logged,
                   running>>

Next == AddUser \/ GetUser

Spec == Init /\ [][Next]_vars

(* ------------------- a caller that keeps the *User -------------------- *)

\* The registry of this specification holds at most this many records.
ViewMaxUsers == 3

\* The arguments of the calls of this specification, and the values the
\* caller writes to a field.
ViewFirstNames == {"", "foo", "bari"}
ViewLastNames == {"bar"}
ViewEmails == {"foo@bar.com"}
ViewWrites ==
  {w \in {"FirstName", "LastName"} \X {"", "foo", "bari", "bar"} :
     \/ w[1] = "FirstName" /\ w[2] \in {"", "foo", "bari"}
     \/ w[1] = "LastName" /\ w[2] \in {"", "bar"}}

\* The capacity append gives the new backing array when the old one is
\* full and one element is added (the gc runtime doubles small slices).
GrowCap(oldcap) == IF oldcap = 0 THEN 1 ELSE 2 * oldcap

\* AddUser, with the backing array of m.users: an append to a full array
\* moves the records to a new array, and a pointer handed out before then
\* keeps naming the old one.
ViewAddUser ==
  \E firstName \in ViewFirstNames, lastName \in ViewLastNames,
     email \in ViewEmails :
    LET r == AddUserResult(users, firstName, lastName, email)
        moved == r.err = Nil /\ Len(users) = ucap
    IN
      /\ Len(r.users) <= ViewMaxUsers
      /\ users' = r.users
      /\ call' = [op |-> "AddUser", first |-> firstName, last |-> lastName,
                  email |-> email]
      /\ ret' = [err |-> r.err, ptr |-> NilPtr]
      /\ before' = users
      /\ ucap' = IF moved THEN GrowCap(ucap) ELSE ucap
      /\ held' = IF moved THEN [held EXCEPT !.live = FALSE] ELSE held
      /\ UNCHANGED <<hist, procs, req, resp, logged,
                   running>>

\* GetUserByName; the caller keeps the pointer returned, &m.users[i], when
\* it is not nil.
ViewGetUser ==
  \E first \in ViewFirstNames, last \in ViewLastNames :
    LET r == GetUserByName(users, first, last) IN
      /\ call' = [op |-> "GetUserByName", first |-> first, last |-> last,
                  email |-> ""]
      /\ ret' = r
      /\ before' = users
      /\ held' = IF r.ptr # NilPtr THEN [ptr |-> r.ptr, live |-> TRUE] ELSE held
      /\ UNCHANGED <<users, ucap, hist, procs, req, resp, logged,
                   running>>

\* The caller assigns to a name field of the User it holds a pointer to.
\* The pointer names an element of a backing array: the one m.users uses
\* now (the record of the registry changes) or one left behind by append
\* (the registry does not see the write).
ViewWrite ==
  \E w \in ViewWrites :
    /\ held.ptr # NilPtr
    /\ users' = IF held.live
                  THEN [users EXCEPT ![held.ptr][w[1]] = w[2]]
                  ELSE users
    /\ call' = [op |-> "Write", first |-> w[1], last |-> w[2], email |-> ""]
    /\ before' = users
    /\ UNCHANGED <<ret, ucap, held, hist, procs, req, resp, logged,
                   running>>

ViewNext == ViewAddUser \/ ViewGetUser \/ ViewWrite

SpecView == Init /\ [][ViewNext]_vars

(* ------------------- the scenario of TestGetUserByName ---------------- *)

\* At most this many AddUser calls are made.
ScenarioMaxAdds == 4

\* The four users the test adds, and the lookups it and the scenarios
\* built on it make.
TestUsers ==
  {<<"foo", "bar", "f.foo@bar.com">>, <<"bari", "foo", "bar@bar.com">>,
   <<"barz", "foo", "barz@bar.com">>, <<"fozz", "foo", "fooz@bar.com">>}

TestLookups ==
  {<<"foo", "bar">>, <<"bari", "foo">>, <<"rgdf", "rgter">>,
   <<"fozz", "fozz">>, <<"", "fozz">>, <<"fozz", "">>, <<"foo", "foo">>}

\* Further AddUser calls on pairs of the test: (foo, bar) again with
\* another address, and (bari, foo) with an address that does not parse.
RepeatUsers ==
  {<<"foo", "bar", "foo@bar.com">>, <<"bari", "foo", "foobar">>}

\* One AddUser call with the arguments of one of these users; hist lists
\* the arguments of the AddUser calls made so far, in order.
ScenarioAddUser ==
  \E t \in TestUsers \cup RepeatUsers :
    LET r == AddUserResult(users, t[1], t[2], t[3]) IN
      /\ Len(hist) < ScenarioMaxAdds
      /\ users' = r.users
      /\ call' = [op |-> "AddUser", first |-> t[1], last |-> t[2],
                  email |-> t[3]]
      /\ ret' = [err |-> r.err, ptr |-> NilPtr]
      /\ before' = users
      /\ hist' = Append(hist, t)
      /\ UNCHANGED <<ucap, held, procs, req, resp, logged,
                   running>>

\* Faulty variant: the lookup moves the record it finds to the front of
\* m.users.
ScenarioGetUserMoveToFront ==
  \E l \in TestLookups :
    LET r == GetUserByName(users, l[1], l[2]) IN
      /\ call' = [op |-> "GetUserByName", first |-> l[1], last |-> l[2],
                  email |-> ""]
      /\ ret' = r
      /\ before' = users
      /\ users' = IF r.ptr = NilPtr THEN users
                  ELSE <<users[r.ptr]>> \o SubSeq(users, 1, r.ptr - 1)
                         \o SubSeq(users, r.ptr + 1, Len(users))
      /\ UNCHANGED <<ucap, held, hist, procs, req, resp, logged, running>>

\* One GetUserByName call with the names of one of the lookups.
ScenarioGetUser ==
  \E l \in TestLookups :
    LET r == GetUserByName(users, l[1], l[2]) IN
      /\ call' = [op |-> "GetUserByName", first |-> l[1], last |-> l[2],
                  email |-> ""]
      /\ ret' = r
      /\ before' = users
      /\ UNCHANGED <<users, ucap, held, hist, procs, req, resp, logged,
                   running>>

ScenarioNext == ScenarioAddUser \/ ScenarioGetUser

SpecScenario == Init /\ [][ScenarioNext]_vars

(* ------------- two goroutines in AddUser, with no locking ------------- *)

\* The arguments of the concurrent calls.
ConcFirstNames == {"foo", "bari"}
ConcLastNames == {"bar"}
ConcEmails == {"foo@bar.com", "bar@bar.com"}

\* Goroutine p enters AddUser and runs it up to the append: the two name
\* checks, the lookup, which reads m.users as it is now (kept in seen),
\* and the parse.  An error returns at once.
ConcCheck(p) ==
  \E firstName \in ConcFirstNames, lastName \in ConcLastNames,
     email \in ConcEmails :
    LET r == AddUserResult(users, firstName, lastName, email) IN
      /\ procs[p].pc = "idle"
      /\ procs' = [procs EXCEPT ![p] =
                     [pc |-> IF r.err = Nil THEN "checked" ELSE "done",
                      first |-> firstName, last |-> lastName,
                      email |-> email, err |-> r.err, seen |-> users,
                      s |-> <<>>]]
      /\ UNCHANGED <<users, call, ret, before, ucap, held, hist, req, resp, logged,
                   running>>

\* append(m.users, newUser) evaluates its argument: goroutine p reads the
\* slice m.users.
ConcRead(p) ==
  /\ procs[p].pc = "checked"
  /\ procs' = [procs EXCEPT ![p].pc = "read", ![p].s = users]
  /\ UNCHANGED <<users, call, ret, before, ucap, held, hist, req, resp, logged,
                   running>>

\* m.users = append(...): goroutine p stores the slice it read, extended by
\* its record, and returns nil.
ConcWrite(p) ==
  /\ procs[p].pc = "read"
  /\ users' = Append(procs[p].s,
                     NewUser(procs[p].first, procs[p].last, procs[p].email,
                             ParseAddress(procs[p].email).addr))
  /\ procs' = [procs EXCEPT ![p].pc = "done"]
  /\ UNCHANGED <<call, ret, before, ucap, held, hist, req, resp, logged,
                   running>>

ConcNext == \E p \in Procs : ConcCheck(p) \/ ConcRead(p) \/ ConcWrite(p)

SpecConc == Init /\ [][ConcNext]_vars

(* --------------------------- the HTTP handlers ------------------------ *)

\* A query string has at most this many key=value pairs.
MaxQueryPairs == 2

StatusOK == 200
StatusBadRequest == 400

\* The parts of a request the handlers read.  query is the raw query
\* string as its key=value pairs, in order; header is the list of values
\* of the "user" header (empty when the header is absent); path is the
\* {user} segment of the URL; body is the request body, and bodyErr says
\* that reading it fails.
QueryKeys == {"user", "foo"}
QueryRawValues == {"Testing", "", "a+b", "%zz"}
QueryPairs == QueryKeys \X QueryRawValues
Queries ==
  UNION {[1..n -> QueryPairs] : n \in 0..MaxQueryPairs}
Headers ==
  {<<>>, <<"">>, <<"TestMan">>, <<"", "TestMan">>, <<"TestMan", "Other">>}
PathValues == {"TestMan", "", "a b"}
Bodies ==
  {"", "{\"Name\":\"human\"}", "{\"Name\":\"\"}", "{}",
   "{\"name\":\"human\"}", "null", "invalid", "{\"Name\":5}"}

Requests(h) ==
  [handler : {h}, query : Queries, header : Headers, path : PathValues,
   body : Bodies, bodyErr : BOOLEAN]

\* The response writers a handler is given: fresh, and either working
\* (httptest.ResponseRecorder, a live connection) or failing every Write
\* (the client is gone).
WriteErrors == {Nil, "write: broken pipe"}
Writers == [code : {0}, body : {""}, ctype : {""}, werr : WriteErrors]

\* The Content-Type of http.Error, and http.DetectContentType on the
\* bodies the handlers write, all of them plain text.
TextPlain == "text/plain; charset=utf-8"
DetectContentType(data) == TextPlain

\* url.QueryUnescape on the raw values above: '+' is a space, and a '%'
\* not followed by two hex digits is an error.
QueryUnescape(raw) ==
  CASE raw = "a+b" -> [val |-> "a b", err |-> Nil]
    [] raw = "%zz" -> [val |-> "", err |-> "invalid URL escape \"%zz\""]
    [] OTHER -> [val |-> raw, err |-> Nil]

\* r.URL.Query()[key]: the unescaped values of the pairs with that key, in
\* order; a pair whose key or value does not unescape is dropped.
RECURSIVE QueryValues(_, _)
QueryValues(query, key) ==
  IF query = <<>> THEN <<>>
  ELSE LET k == QueryUnescape(Head(query)[1])
           v == QueryUnescape(Head(query)[2])
           rest == QueryValues(Tail(query), key)
       IN IF k.err = Nil /\ v.err = Nil /\ k.val = key
            THEN <<v.val>> \o rest
            ELSE rest

\* r.Header.Get("user"): the first value of the header, "" when absent.
HeaderGet(header) == IF header = <<>> THEN "" ELSE header[1]

\* json.Unmarshal(byteData, &reqData) on the bodies above, reqData being a
\* zero UserData: the error, and reqData.Name afterwards.  Field names
\* match without regard to case; null and {} leave Name empty; a number
\* for Name and a text that is no JSON value are errors.
Unmarshal(byteData) ==
  CASE byteData \in {"{\"Name\":\"human\"}", "{\"name\":\"human\"}"} ->
         [Name |-> "human", err |-> Nil]
    [] byteData \in {"{\"Name\":\"\"}", "{}", "null"} ->
         [Name |-> "", err |-> Nil]
    [] byteData = "{\"Name\":5}" ->
         [Name |-> "",
          err |-> "json: cannot unmarshal number into Go struct field UserData.Name of type string"]
    [] byteData = "" ->
         [Name |-> "", err |-> "unexpected end of JSON input"]
    [] OTHER ->
         [Name |-> "",
          err |-> "invalid character 'i' looking for beginning of value"]

\* w.Write(data).  The first write sends status 200 when none was sent
\* (and, with no Content-Type set, the type is detected from the data).  On
\* a writer whose writes fail the status is sent, no data is, and the
\* error is returned.
Write(w, data) ==
  LET sent == [w EXCEPT !.code = IF @ = 0 THEN StatusOK ELSE @] IN
    IF w.werr # Nil
      THEN [w |-> sent, err |-> w.werr]
      ELSE [w |-> [sent EXCEPT !.body = @ \o data,
                               !.ctype = IF @ = "" THEN DetectContentType(data)
                                         ELSE @],
            err |-> Nil]

\* Faulty variant: the message is written with no newline after it.
ErrorNoNewline(w, msg, code) ==
  Write([w EXCEPT !.ctype = TextPlain,
                  !.code = IF @ = 0 THEN code ELSE @], msg).w

\* http.Error(w, msg, code): the Content-Type text/plain, the status, then
\* msg and a newline; the result of the write is dropped.
Error(w, msg, code) ==
  Write([w EXCEPT !.ctype = TextPlain,
                  !.code = IF @ = 0 THEN code ELSE @], msg \o "\n").w

\* What a handler has done when it returns: the response writer as it
\* left it, the records it logged, and whether it ended the process
\* (log.Fatal logs and calls os.Exit(1)).
Returned(w, records) == [w |-> w, logged |-> records, exited |-> FALSE]
Exited(w, records) == [w |-> w, logged |-> records, exited |-> TRUE]

\* Faulty variant: the root handler answers only the path it is routed at.
handleRootNotFound(w, r) ==
  IF r.path # ""
    THEN Returned(Error(w, "404 page not found", 404), <<>>)
    ELSE LET wr == Write(w, "Welcome to our HomePage!\n") IN
      IF wr.err # Nil
        THEN Returned(wr.w, <<"Error serving the health_handler err: " \o wr.err>>)
        ELSE Returned(wr.w, <<>>)

handleRoot(w, r) ==
  LET wr == Write(w, "Welcome to our HomePage!\n") IN
    IF wr.err # Nil
      THEN Returned(wr.w, <<"Error serving the health_handler err: " \o wr.err>>)
      ELSE Returned(wr.w, <<>>)

handleGoodbye(w, r) ==
  LET wr == Write(w, "Goodbye world is served at goodbye\n") IN
    IF wr.err # Nil
      THEN Exited(wr.w, <<"Error serving the goodbye handler err: " \o wr.err>>)
      ELSE Returned(wr.w, <<>>)

handleHello(w, username) ==
  LET wr == Write(w, "Hello " \o username \o "!\n") IN
    IF wr.err # Nil
      THEN Returned(wr.w, <<"error starting response body">>)
      ELSE Returned(wr.w, <<>>)

\* Faulty variant: the last value of user is greeted.
handleHelloParameterizedLast(w, r) ==
  LET userlist == QueryValues(r.query, "user")
      username == IF Len(userlist) > 0 THEN userlist[Len(userlist)]
                  ELSE "User"
  IN handleHello(w, username)

handleHelloParameterized(w, r) ==
  LET userlist == QueryValues(r.query, "user")
      username == IF Len(userlist) > 0 THEN userlist[1] ELSE "User"
  IN handleHello(w, username)

\* Faulty variant: an empty path value is refused like an empty header.
handleUserResponsesHelloChecked(w, r) ==
  LET username == r.path IN
    IF username = ""
      THEN Returned(Error(w, "invalid username provided", StatusBadRequest), <<>>)
      ELSE handleHello(w, username)

handleUserResponsesHello(w, r) ==
  LET username == r.path IN handleHello(w, username)

\* Faulty variant: no return after http.Error.
handleHelloHeaderNoReturn(w, r) ==
  LET username == HeaderGet(r.header) IN
    IF username = ""
      THEN handleHello(Error(w, "invalid username provided", StatusBadRequest),
                       username)
      ELSE handleHello(w, username)

handleHelloHeader(w, r) ==
  LET username == HeaderGet(r.header) IN
    IF username = ""
      THEN Returned(Error(w, "invalid username provided", StatusBadRequest), <<>>)
      ELSE handleHello(w, username)

handleHelloNoHeader(w, r) ==
  LET username == HeaderGet(r.header) IN
    IF username = ""
      THEN Returned(Error(w, "invalid username provided", StatusBadRequest), <<>>)
      ELSE handleHello(w, username)

handleJSON(w, r) ==
  IF r.bodyErr
    THEN Returned(Error(w, "bad request body", StatusBadRequest),
                  <<"error reading request body">>)
  ELSE LET byteData == r.body IN
    IF byteData = ""
      THEN Returned(Error(w, "empty request body", StatusBadRequest), <<>>)
    ELSE LET reqData == Unmarshal(byteData) IN
      IF reqData.err # Nil
        THEN Returned(Error(w, "error parsing request body", StatusBadRequest),
                      <<"error unmarshalling request body">>)
      ELSE IF reqData.Name = ""
        THEN Returned(Error(w, "invalid request body!", StatusBadRequest), <<>>)
        ELSE handleHello(w, reqData.Name)

\* The server, running and waiting for a request, receives one and runs
\* the handler on it with a fresh response writer; resp is the writer as
\* the handler left it, logged what it logged, and the process stops
\* running when the handler ended it.
ServeRoot ==
  /\ running
  /\ req = NoRequest
  /\ \E r \in Requests("handleRoot"), w \in Writers :
       LET out == handleRoot(w, r) IN
         /\ req' = r
         /\ resp' = out.w
         /\ logged' = out.logged
         /\ running' = ~out.exited
  /\ UNCHANGED <<users, call, ret, before, ucap, held, hist, procs>>

ServeGoodbye ==
  /\ running
  /\ req = NoRequest
  /\ \E r \in Requests("handleGoodbye"), w \in Writers :
       LET out == handleGoodbye(w, r) IN
         /\ req' = r
         /\ resp' = out.w
         /\ logged' = out.logged
         /\ running' = ~out.exited
  /\ UNCHANGED <<users, call, ret, before, ucap, held, hist, procs>>

ServeHelloParameterized ==
  /\ running
  /\ req = NoRequest
  /\ \E r \in Requests("handleHelloParameterized"), w \in Writers :
       LET out == handleHelloParameterized(w, r) IN
         /\ req' = r
         /\ resp' = out.w
         /\ logged' = out.logged
         /\ running' = ~out.exited
  /\ UNCHANGED <<users, call, ret, before, ucap, held, hist, procs>>

ServeUserResponsesHello ==
  /\ running
  /\ req = NoRequest
  /\ \E r \in Requests("handleUserResponsesHello"), w \in Writers :
       LET out == handleUserResponsesHello(w, r) IN
         /\ req' = r
         /\ resp' = out.w
         /\ logged' = out.logged
         /\ running' = ~out.exited
  /\ UNCHANGED <<users, call, ret, before, ucap, held, hist, procs>>

ServeHelloHeader ==
  /\ running
  /\ req = NoRequest
  /\ \E r \in Requests("handleHelloHeader"), w \in Writers :
       LET out == handleHelloHeader(w, r) IN
         /\ req' = r
         /\ resp' = out.w
         /\ logged' = out.logged
         /\ running' = ~out.exited
  /\ UNCHANGED <<users, call, ret, before, ucap, held, hist, procs>>

ServeHelloNoHeader ==
  /\ running
  /\ req = NoRequest
  /\ \E r \in Requests("handleHelloNoHeader"), w \in Writers :
       LET out == handleHelloNoHeader(w, r) IN
         /\ req' = r
         /\ resp' = out.w
         /\ logged' = out.logged
         /\ running' = ~out.exited
  /\ UNCHANGED <<users, call, ret, before, ucap, held, hist, procs>>

ServeJSON ==
  /\ running
  /\ req = NoRequest
  /\ \E r \in Requests("handleJSON"), w \in Writers :
       LET out == handleJSON(w, r) IN
         /\ req' = r
         /\ resp' = out.w
         /\ logged' = out.logged
         /\ running' = ~out.exited
  /\ UNCHANGED <<users, call, ret, before, ucap, held, hist, procs>>

\* The handler has returned and the response is sent or given up; the
\* server, still running, waits for the next request.
Finish ==
  /\ running
  /\ req # NoRequest
  /\ req' = NoRequest
  /\ resp' = NoResponse
  /\ logged' = <<>>
  /\ UNCHANGED <<users, call, ret, before, ucap, held, hist, procs, running>>

HTTPNext ==
  \/ ServeRoot
  \/ ServeGoodbye
  \/ ServeHelloParameterized
  \/ ServeUserResponsesHello
  \/ ServeHelloHeader
  \/ ServeHelloNoHeader
  \/ ServeJSON
  \/ Finish

SpecHTTP == Init /\ [][HTTPNext]_vars

(* ------------------------ the call just returned ---------------------- *)

AddReturned == call.op = "AddUser"
GetReturned == call.op = "GetUserByName"

\* Some record of registry m carries the pair (first, last).
Stored(m, first, last) ==
  \E i \in 1..Len(m) : m[i].FirstName = first /\ m[i].LastName = last

Parses(email) == ParseAddress(email).err = Nil

(* ------------------------------- claims ------------------------------- *)

\* C1: in every registry state reached by AddUser and GetUserByName calls
\* made one at a time, no two stored records have the same
\* (FirstName, LastName) pair.
C1_UniqueNames ==
  \A i, j \in 1..Len(users) :
    (users[i].FirstName = users[j].FirstName
       /\ users[i].LastName = users[j].LastName) => i = j

\* C1 witness: a registry of two records on which AddUser has just been
\* called with a pair it already holds.
C1_Witness ==
  /\ AddReturned
  /\ Len(users) >= 2
  /\ Stored(before, call.first, call.last)
  /\ Parses(call.email)

\* C2: every stored record has a non-empty FirstName and a non-empty
\* LastName, whatever arguments (empty strings included) AddUser was given.
C2_NonEmptyNames ==
  \A i \in 1..Len(users) : users[i].FirstName # "" /\ users[i].LastName # ""

\* C2 witness: AddUser has just been called with an empty last name and a
\* parseable email on a registry that holds a record.
C2_Witness ==
  /\ AddReturned
  /\ call.first # "" /\ call.last = ""
  /\ Parses(call.email)
  /\ Len(users) >= 1

\* The record AddUser(first, last, email) is to store.
Expected(c) ==
  [FirstName |-> c.first, LastName |-> c.last,
   Email |-> ParseAddress(c.email).addr]

\* A lookup of the call's pair in the registry as the call left it returns
\* a record with exactly the call's names and parsed email.
LookupGivesCall ==
  LET g == GetUserByName(users, call.first, call.last) IN
    /\ g.err = Nil
    /\ g.ptr # NilPtr
    /\ users[g.ptr] = Expected(call)

\* C3 as stated: AddUser with non-empty names and a parseable email returns
\* nil and a following GetUserByName returns the record of the call,
\* whatever the registry held.
C3_Original ==
  (AddReturned /\ call.first # "" /\ call.last # "" /\ Parses(call.email))
    => (ret.err = Nil /\ LookupGivesCall)

\* C3 amended: the same, for calls whose (first, last) pair the registry
\* did not hold when the call was made.
C3_AddThenGet ==
  (AddReturned /\ call.first # "" /\ call.last # "" /\ Parses(call.email)
     /\ ~Stored(before, call.first, call.last))
    => (ret.err = Nil /\ LookupGivesCall)

\* C3 witness: a successful AddUser whose raw email differs from the
\* address stored, on a registry that already held a record.
C3_Witness ==
  /\ AddReturned
  /\ ret.err = Nil
  /\ Len(before) >= 1
  /\ call.email = "jhon <foo@bar.com>"
  /\ LookupGivesCall

\* C4: AddUser called while a record with its (first, last) pair is stored
\* fails with "user already exists", for any email, and adds no record;
\* the same pair added twice to a fresh registry leaves exactly 1 record.
C4_Duplicate ==
  (AddReturned /\ Stored(before, call.first, call.last))
    => /\ ret.err = "user already exists"
       /\ users = before
       /\ (Len(before) = 1 => Len(users) = 1)

\* C4 witness: the second AddUser of a pair on a registry of one record,
\* this time with an email that does not parse.
C4_Witness ==
  /\ AddReturned
  /\ Len(before) = 1
  /\ Stored(before, call.first, call.last)
  /\ ~Parses(call.email)
  /\ ret.err = "user already exists"

\* The checks of AddUser that the call just made would fail, numbered in
\* the order first name, last name, duplicate, email.
FailingChecks ==
  {k \in 1..4 :
     \/ k = 1 /\ call.first = ""
     \/ k = 2 /\ call.last = ""
     \/ k = 3 /\ Stored(before, call.first, call.last)
     \/ k = 4 /\ ~Parses(call.email)}

ErrorOfCheck(k) ==
  CASE k = 1 -> "invalid first name: \"\""
    [] k = 2 -> "invalid last name: \"\""
    [] k = 3 -> "user already exists"
    [] k = 4 -> "invalid email: " \o call.email

Earliest(S) == CHOOSE k \in S : \A j \in S : k <= j

\* C5: when several checks of one AddUser call would fail, the error
\* returned is that of the earliest in the order empty first name, empty
\* last name, duplicate pair, unparseable email.
C5_CheckOrder ==
  (AddReturned /\ Cardinality(FailingChecks) >= 2)
    => ret.err = ErrorOfCheck(Earliest(FailingChecks))

\* C5 witness: AddUser of a stored pair with an unparseable email has
\* returned the duplicate error.
C5_Witness ==
  /\ AddReturned
  /\ FailingChecks = {3, 4}
  /\ ret.err = ErrorOfCheck(3)

\* C6: an AddUser call that returns an error leaves the record sequence as
\* it was: same length, same records, same order.
C6_ErrorLeavesRegistry ==
  (AddReturned /\ ret.err # Nil) => users = before

\* C6 witness: AddUser has failed on the email alone, on a registry that
\* holds records.
C6_Witness ==
  /\ AddReturned
  /\ FailingChecks = {4}
  /\ ret.err # Nil
  /\ Len(before) >= 1

\* C7: AddUser with an empty first name fails with the message
\* invalid first name: "" whatever the other arguments and the registry,
\* and the registry size is unchanged.
C7_EmptyFirstName ==
  (AddReturned /\ call.first = "")
    => /\ ret.err = "invalid first name: \"\""
       /\ Len(users) = Len(before)

\* C7 witness: AddUser with an empty first name, a valid last name and a
\* parseable email has returned, on a registry that holds a record.
C7_Witness ==
  /\ AddReturned
  /\ call.first = "" /\ call.last # "" /\ Parses(call.email)
  /\ Len(before) >= 1
  /\ ret.err # Nil

\* C8: AddUser with a non-empty first name and an empty last name fails
\* with the message invalid last name: "" and adds no record.
C8_EmptyLastName ==
  (AddReturned /\ call.first # "" /\ call.last = "")
    => /\ ret.err = "invalid last name: \"\""
       /\ Len(users) = Len(before)

\* C8 witness: AddUser with first name "foo", an empty last name and the
\* email "foo@bar.com" has returned an error.
C8_Witness ==
  /\ AddReturned
  /\ call.first = "foo" /\ call.last = "" /\ call.email = "foo@bar.com"
  /\ ret.err # Nil

\* C9: AddUser with non-empty names, a pair not yet stored and an email
\* that does not parse fails with "invalid email: " followed by the raw
\* email, and the registry size is unchanged.
C9_InvalidEmail ==
  (AddReturned /\ call.first # "" /\ call.last # ""
     /\ ~Stored(before, call.first, call.last) /\ ~Parses(call.email))
    => /\ ret.err = "invalid email: " \o call.email
       /\ Len(users) = Len(before)

\* C9 witness: AddUser("foo", "bar", "foobar") has failed on a registry
\* that holds another record.
C9_Witness ==
  /\ AddReturned
  /\ call.first = "foo" /\ call.last = "bar" /\ call.email = "foobar"
  /\ Len(before) >= 1
  /\ ~Stored(before, "foo", "bar")
  /\ ret.err # Nil

\* C10: GetUserByName(first, last) returns (nil, ErrNoResultFound) exactly
\* when no stored record has both names equal to the arguments; otherwise
\* it returns a record and the nil error.
C10_NotFoundIffAbsent ==
  GetReturned
    => /\ (ret.ptr = NilPtr /\ ret.err = ErrNoResultFound)
            <=> ~Stored(users, call.first, call.last)
       /\ Stored(users, call.first, call.last)
            => (ret.ptr # NilPtr /\ ret.err = Nil)

\* C10 witness: a lookup whose first name is the first name of one record
\* and whose last name is the last name of another has found nothing.
C10_Witness ==
  /\ GetReturned
  /\ ret.ptr = NilPtr
  /\ \E i, j \in 1..Len(users) :
       users[i].FirstName = call.first /\ users[j].LastName = call.last

\* The indexes of the records of m that carry the pair (first, last).
Matches(m, first, last) ==
  {i \in 1..Len(m) : m[i].FirstName = first /\ m[i].LastName = last}

\* C11: whenever at least one stored record has both names equal to the
\* arguments, GetUserByName returns with the nil error the address of the
\* matching record of lowest index.
C11_FirstMatch ==
  (GetReturned /\ Matches(users, call.first, call.last) # {})
    => /\ ret.err = Nil
       /\ ret.ptr \in Matches(users, call.first, call.last)
       /\ \A i \in Matches(users, call.first, call.last) : ret.ptr <= i

\* C11 witness: a lookup on a registry in which two records carry the pair
\* asked for, the first of them not at the head of the registry.
C11_Witness ==
  /\ GetReturned
  /\ Cardinality(Matches(users, call.first, call.last)) >= 2
  /\ 1 \notin Matches(users, call.first, call.last)

\* C15 as stated: nothing the caller writes through a returned *User
\* changes a record of the registry, so after such a write no two records
\* share a pair and no stored name is empty.
C15_ReadOnlyView ==
  call.op = "Write"
    => (users = before /\ C1_UniqueNames /\ C2_NonEmptyNames)

\* The two AddUser calls of the scenario of C12, in order.
FooBarThenBariFoo ==
  <<(<<"foo", "bar", "f.foo@bar.com">>), (<<"bari", "foo", "bar@bar.com">>)>>

\* C12: on a fresh registry, after AddUser("foo","bar","f.foo@bar.com") and
\* AddUser("bari","foo","bar@bar.com"), GetUserByName("bari","foo") returns
\* the second record and GetUserByName("foo","foo") returns
\* (nil, ErrNoResultFound).
C12_Scenario ==
  (hist = FooBarThenBariFoo /\ GetReturned)
    => /\ (call.first = "bari" /\ call.last = "foo")
            => /\ ret.err = Nil
               /\ ret.ptr = 2
               /\ users[2] = [FirstName |-> "bari", LastName |-> "foo",
                              Email |-> [Name |-> "", Address |-> "bar@bar.com"]]
       /\ (call.first = "foo" /\ call.last = "foo")
            => (ret.ptr = NilPtr /\ ret.err = ErrNoResultFound)

\* C12 witness: the two AddUser calls were made, in that order, and
\* GetUserByName("foo","foo") has returned.
C12_Witness ==
  /\ hist = FooBarThenBariFoo
  /\ GetReturned
  /\ call.first = "foo" /\ call.last = "foo"
  /\ Len(users) = 2

\* Sequence p is a prefix of sequence q.
IsPrefix(p, q) == Len(p) <= Len(q) /\ SubSeq(q, 1, Len(p)) = p

\* C13: the registry starts empty, and over every step the record sequence
\* before it is a prefix of the one after it; a successful AddUser extends
\* it by exactly one record, at the end, built from the call's three
\* fields.
C13_AppendOnly ==
  /\ users = <<>>
  /\ [][/\ IsPrefix(users, users')
        /\ (call'.op = "AddUser" /\ ret'.err = Nil)
             => users' = Append(users, Expected(call'))
        /\ (call'.op = "AddUser" /\ ret'.err # Nil) => users' = users
        /\ call'.op = "GetUserByName" => users' = users]_vars

\* C13 witness: AddUser has succeeded on a registry that already held two
\* records.
C13_Witness ==
  /\ AddReturned
  /\ ret.err = Nil
  /\ Len(before) = 2
  /\ Len(users) = 3

\* C14: AddUser with non-empty names, a pair not yet stored and a valid
\* email succeeds although a record with another pair already carries
\* that email, and both records are stored afterwards.
C14_SameEmailAllowed ==
  (AddReturned /\ call.first # "" /\ call.last # "" /\ Parses(call.email)
     /\ ~Stored(before, call.first, call.last)
     /\ \E i \in 1..Len(before) :
          before[i].Email = ParseAddress(call.email).addr)
    => /\ ret.err = Nil
       /\ Len(users) = Len(before) + 1
       /\ \A i \in 1..Len(before) : users[i] = before[i]
       /\ users[Len(users)] = Expected(call)

\* C14 witness: the second of two successful AddUser calls with different
\* pairs and the same email string has returned.
C14_Witness ==
  /\ AddReturned
  /\ ret.err = Nil
  /\ Len(users) = 2
  /\ users[1].Email = users[2].Email
  /\ users[1].Email = ParseAddress("foo@bar.com").addr
  /\ call.email = "foo@bar.com"
  /\ (users[1].FirstName # users[2].FirstName
        \/ users[1].LastName # users[2].LastName)

\* Goroutine p has returned nil from an AddUser whose lookup did not see
\* its pair in the registry.
PassedCheckAndAppended(p) ==
  /\ procs[p].pc = "done"
  /\ procs[p].err = Nil
  /\ ~Stored(procs[p].seen, procs[p].first, procs[p].last)

\* C16: the lookup and the append of AddUser are not one atomic step.  Two
\* records come to share a pair only when both goroutines called AddUser
\* with that pair, both lookups ran before the other's append and found
\* nothing, and both appended.
C16_DuplicateByRace ==
  ~C1_UniqueNames
    => /\ \A p \in Procs : PassedCheckAndAppended(p)
       /\ procs[1].first = procs[2].first
       /\ procs[1].last = procs[2].last
       /\ \A p \in Procs : Parses(procs[p].email)

\* C16 witness: both goroutines looked the pair up in the empty registry,
\* both appended, and the registry holds two records with the same pair.
C16_Witness ==
  /\ \A p \in Procs : PassedCheckAndAppended(p) /\ procs[p].seen = <<>>
  /\ Len(users) = 2
  /\ users[1].FirstName = users[2].FirstName
  /\ users[1].LastName = users[2].LastName

(* ------------------------ claims on the handlers ---------------------- *)

\* Handler h has run on the request req with a response writer that works
\* and resp is its response.
Served(h) == req.handler = h /\ resp.werr = Nil

Response(code, body) ==
  [code |-> code, body |-> body, ctype |-> TextPlain, werr |-> Nil]

\* C17 as stated: handleJSON answers 400 "empty request body\n" to an
\* empty body, 400 "invalid request body!\n" to a body that is malformed
\* JSON or whose Name is empty or missing, and 200 "Hello {Name}!\n" to
\* valid JSON with a non-empty Name.
C17_JSONResponses ==
  (Served("handleJSON") /\ ~req.bodyErr)
    => IF req.body = ""
         THEN resp = Response(400, "empty request body\n")
       ELSE IF Unmarshal(req.body).err # Nil \/ Unmarshal(req.body).Name = ""
         THEN resp = Response(400, "invalid request body!\n")
         ELSE resp = Response(200, "Hello " \o Unmarshal(req.body).Name \o "!\n")

\* The value of the request's user header: its first value, or "" when the
\* header is absent.
UserHeader == IF Len(req.header) = 0 THEN "" ELSE req.header[1]

\* C18: the handler of GET /user/hello answers 400
\* "invalid username provided\n" when the user header is absent or empty
\* and 200 "Hello {NAME}!\n" when it carries the non-empty value NAME, and
\* the body is never an error followed by a greeting.
C18_HelloHeader ==
  (Served("handleHelloHeader") \/ Served("handleHelloNoHeader"))
    => IF UserHeader = ""
         THEN resp = Response(400, "invalid username provided\n")
         ELSE resp = Response(200, "Hello " \o UserHeader \o "!\n")

\* C18 witness: handleHelloHeader has answered a request with no user
\* header.
C18_Witness ==
  /\ Served("handleHelloHeader")
  /\ req.header = <<>>
  /\ resp.code = 400

\* C19: handleHelloParameterized always answers 200, with body
\* "Hello {NAME}!\n" when the query carries user=NAME and with body
\* "Hello User!\n" when the query has no user parameter.
C19_HelloParameterized ==
  Served("handleHelloParameterized")
    => /\ resp.code = 200
       /\ QueryValues(req.query, "user") # <<>>
            => resp.body = "Hello " \o QueryValues(req.query, "user")[1] \o "!\n"
       /\ (\A i \in 1..Len(req.query) : req.query[i][1] # "user")
            => resp.body = "Hello User!\n"

\* C19 witness: handleHelloParameterized has answered a request whose
\* query is foo=Testing alone.
C19_Witness ==
  /\ Served("handleHelloParameterized")
  /\ req.query = <<(<<"foo", "Testing">>)>>
  /\ resp.body = "Hello User!\n"

\* C20: handleUserResponsesHello always answers 200 with body
\* "Hello {NAME}!\n", NAME being the value of the user path segment; it has
\* no error response.
C20_UserResponsesHello ==
  Served("handleUserResponsesHello")
    => resp = Response(200, "Hello " \o req.path \o "!\n")

\* C20 witness: handleUserResponsesHello has answered a request whose user
\* path value is empty.
C20_Witness ==
  /\ Served("handleUserResponsesHello")
  /\ req.path = ""
  /\ resp.code = 200

\* Some handler has run on the request req, with a writer that works or
\* one that fails.
Handled == req # NoRequest

\* The messages of the handlers' http.Error calls, none holding a newline.
ErrorMessages ==
  {"invalid username provided", "bad request body", "empty request body",
   "error parsing request body", "invalid request body!"}

\* C21: whichever handler ran, the status it sent is 200 or 400 (never a
\* 5xx), and a failure response that was written is a 400 of type
\* text/plain whose body is one message followed by a newline.
C21_FailureResponses ==
  Handled
    => /\ resp.code \in {StatusOK, StatusBadRequest}
       /\ (resp.code # StatusOK /\ resp.werr = Nil)
            => /\ resp.ctype = TextPlain
               /\ \E msg \in ErrorMessages : resp.body = msg \o "\n"

\* C21 witness: handleJSON has refused the body {} with a 400.
C21_Witness ==
  /\ Served("handleJSON")
  /\ ~req.bodyErr
  /\ req.body = "{}"
  /\ resp.code = StatusBadRequest

\* The record a handler logs when its write of the response fails.
WriteFailureLogged ==
  \E i \in 1..Len(logged) :
    logged[i] \in {"Error serving the health_handler err: " \o resp.werr,
                   "Error serving the goodbye handler err: " \o resp.werr,
                   "error starting response body"}

\* C22 as stated: whichever handler ran, when writing the response failed
\* the failure was logged, the handler returned, and the server process
\* is still running to serve later requests.
C22_WriteFailureAbandoned ==
  (Handled /\ resp.werr # Nil) => (WriteFailureLogged /\ running)

\* C23: with a writer that works, handleRoot answers 200
\* "Welcome to our HomePage!\n" and handleGoodbye answers 200
\* "Goodbye world is served at goodbye\n", whatever the request's path,
\* query, headers and body.
C23_RootAndGoodbye ==
  /\ Served("handleRoot")
       => resp = Response(StatusOK, "Welcome to our HomePage!\n")
  /\ Served("handleGoodbye")
       => resp = Response(StatusOK, "Goodbye world is served at goodbye\n")

\* C23 witness: handleRoot has answered a request that carries a path
\* value, a query, a user header and a body.
C23_Witness ==
  /\ Served("handleRoot")
  /\ req.path = "TestMan"
  /\ req.query # <<>>
  /\ req.header # <<>>
  /\ req.body # ""
  /\ resp.code = StatusOK

\* The raw value of the first user pair of the query.
RECURSIVE FirstUserValue(_)
FirstUserValue(query) ==
  IF Head(query)[1] = "user" THEN Head(query)[2]
  ELSE FirstUserValue(Tail(query))

\* C29 as stated: handleHelloParameterized greets the default name "User"
\* exactly when the query holds no user key; when it holds one, the
\* greeting carries the value of the first, the empty name included.
C29_DefaultOnlyWithoutUserKey ==
  Served("handleHelloParameterized")
    => IF \E i \in 1..Len(req.query) : req.query[i][1] = "user"
         THEN resp.body =
                "Hello " \o QueryUnescape(FirstUserValue(req.query)).val \o "!\n"
         ELSE resp.body = "Hello User!\n"

(* ------------------- claims on the scenario, continued ---------------- *)

\* The four AddUser calls of TestGetUserByName, in order.
FourUsersAdded ==
  <<(<<"foo", "bar", "f.foo@bar.com">>), (<<"bari", "foo", "bar@bar.com">>),
    (<<"barz", "foo", "barz@bar.com">>), (<<"fozz", "foo", "fooz@bar.com">>)>>

\* C24 as stated: after the four AddUser calls of TestGetUserByName on a
\* fresh registry, GetUserByName("bari","foo") returns, with a nil error,
\* the record at index 3 (the fourth, m.users[3]), the last of the
\* registry.
C24_LastElementLookup ==
  (hist = FourUsersAdded /\ GetReturned
     /\ call.first = "bari" /\ call.last = "foo")
    => /\ ret.err = Nil
       /\ ret.ptr = 4
       /\ ret.ptr = Len(users)

\* C25: GetUserByName returns either (a record, nil) or
\* (nil, ErrNoResultFound), so AddUser never returns the wrapped
\* "error getting user by name" error: its error is nil, the first-name,
\* the last-name, the duplicate or the email error.
C25_LookupOutcomes ==
  /\ GetReturned
       => \/ ret.ptr # NilPtr /\ ret.err = Nil
          \/ ret.ptr = NilPtr /\ ret.err = ErrNoResultFound
  /\ AddReturned
       => ret.err \in {Nil, InvalidFirstName(call.first),
                       InvalidLastName(call.last), ErrUserExists,
                       InvalidEmail(call.email)}

\* C25 witness: AddUser ran its lookup on a registry holding two records,
\* the lookup found nothing, and the user was added.
C25_Witness ==
  /\ AddReturned
  /\ ret.err = Nil
  /\ Len(before) = 2
  /\ Len(users) = 3

\* C26: a GetUserByName call leaves the record sequence as it found it,
\* and the same call made again straight after returns the same outcome.
C26_LookupReadOnly ==
  [][call'.op = "GetUserByName"
       => /\ users' = users
          /\ (call.op = "GetUserByName" /\ call'.first = call.first
                 /\ call'.last = call.last)
               => ret' = ret]_vars

\* C26 witness: after the four AddUser calls of the test, GetUserByName
\* has found the second record and the registry is as the call found it.
C26_Witness ==
  /\ GetReturned
  /\ hist = FourUsersAdded
  /\ ret.ptr = 2
  /\ users = before

\* The registry after the AddUser calls of h, made in order on a fresh
\* registry.
RECURSIVE Replay(_)
Replay(h) ==
  IF h = <<>> THEN <<>>
  ELSE LET n == Len(h)
           m == Replay(SubSeq(h, 1, n - 1))
       IN AddUserResult(m, h[n][1], h[n][2], h[n][3]).users

\* The i-th AddUser call of hist returned nil.
Succeeded(i) ==
  AddUserResult(Replay(SubSeq(hist, 1, i - 1)),
                hist[i][1], hist[i][2], hist[i][3]).err = Nil

\* C27: after an AddUser(first, last, email) call that returned nil, every
\* GetUserByName(first, last), whatever AddUser and GetUserByName calls
\* came in between, returns a record with those names and the address
\* parsed from that call's email, and not ErrNoResultFound.
C27_AddedStaysFound ==
  GetReturned
    => \A i \in 1..Len(hist) :
         (Succeeded(i) /\ hist[i][1] = call.first /\ hist[i][2] = call.last)
           => /\ ret.err = Nil
              /\ ret.ptr # NilPtr
              /\ users[ret.ptr] =
                   [FirstName |-> hist[i][1], LastName |-> hist[i][2],
                    Email |-> ParseAddress(hist[i][3]).addr]

\* C27 witness: (bari, foo) was added after a failed attempt, two more
\* AddUser calls followed, one of them refused, and GetUserByName of the
\* pair has returned.
C27_Witness ==
  /\ hist = <<(<<"bari", "foo", "foobar">>), (<<"bari", "foo", "bar@bar.com">>),
              (<<"foo", "bar", "foo@bar.com">>), (<<"foo", "bar", "f.foo@bar.com">>)>>
  /\ GetReturned
  /\ call.first = "bari" /\ call.last = "foo"
  /\ ret.ptr = 1

(* ------------------- claims on the concurrent calls, continued -------- *)

\* C28 as stated: when the two goroutines called AddUser with different
\* pairs and both calls have returned nil, the registry holds a record for
\* each pair.
C28_NoLostAppend ==
  (/\ \A p \in Procs : procs[p].pc = "done" /\ procs[p].err = Nil
   /\ <<procs[1].first, procs[1].last>> # <<procs[2].first, procs[2].last>>)
    => \A p \in Procs : Stored(users, procs[p].first, procs[p].last)

====
